---- MODULE Spec2Model ----
(***************************************************************************)
(* The two notebooks of the repository as state machines over the kernel's *)
(* global namespace.                                                        *)
(*   example.ipynb : run top to bottom ("Run All"), one action per cell.    *)
(*   kinesin.ipynb : cells run in any order, any number of times.           *)
(* A cell is a sequence of statements; a statement that reads a global     *)
(* name that is not bound raises NameError and ends the cell, the          *)
(* statements before it keep their effect.                                  *)
(*                                                                          *)
(* Symbolic rates are monomials  prod a^m[a]  over the atoms: the ten rate  *)
(* symbols, exp(f/2), exp(g/2) and b (all positive), so that products,     *)
(* quotients, substitution and the logarithm of a product are exact.       *)
(* Grid coordinates are exact rationals with the common denominator        *)
(* GridRes-1 (example.ipynb: in hundredths, because ymin = .01).            *)
(***************************************************************************)
EXTENDS Integers, Sequences, FiniteSets, TLC

VARIABLES
    \* ---- example.ipynb kernel
    epc,                \* index of the next code cell of example.ipynb to run
    ebound,             \* global names bound in the example kernel
    eerr,               \* a cell of example.ipynb raised NameError
    model4State,        \* dict edge -> rate symbol
    rates_parametrized, \* substitution list of <<symbol, monomial>>
    aff0, aff1,         \* cycle affinities (logarithm of the stored monomial)
    eX, eY, eplotarea,  \* X, Y, plotarea of example.ipynb
    eout,               \* figures shown under each cell of example.ipynb
    cumlib,             \* what the external cumulants module returns
    \* ---- kinesin.ipynb kernel
    kbound,             \* global names bound in the kinesin kernel
    fmin, fmax, mumin, mumax, xpts, ypts,
    X, Y, plotarea,     \* full-range grid and extent
    XX, YY, zoomarea,   \* zoomed grid and extent
    kdata,              \* the data arrays of kinesin.ipynb, by name
    kout,               \* figures shown under each cell of kinesin.ipynb
    kdone,              \* cells of kinesin.ipynb that ran to their end
    kgrid,              \* the grid cell (5 or 6) that was run last, 0 if none
    lamlib,             \* what the external lambdification module returns
    \* ---- a single call of pplot
    pin,                \* arguments and globals of the call
    pfig,               \* the figure returned
    pcalls,             \* the argument lists g was called with
    pstep               \* "args" before the call, "done" after it

evars == <<epc, ebound, eerr, model4State, rates_parametrized, aff0, aff1,
           eX, eY, eplotarea, eout, cumlib>>
kvars == <<kbound, fmin, fmax, mumin, mumax, xpts, ypts, X, Y, plotarea,
           XX, YY, zoomarea, kdata, kout, kdone, kgrid, lamlib>>
pvars == <<pin, pfig, pcalls, pstep>>
vars == <<evars, kvars, pvars>>

----------------------------------------------------------------------------
(* Bounds of the model *)

\* points per axis of the plotting grid (the notebooks use resolution = 400)
GridRes == 3
\* largest decimal exponent of the values of a lambdified function
MaxMag == 1

----------------------------------------------------------------------------
(* Sequences and arrays *)

Range(s) == {s[i] : i \in DOMAIN s}

Reverse(s) == [i \in 1..Len(s) |-> s[Len(s) + 1 - i]]

RECURSIVE SeqSum(_)
SeqSum(s) == IF s = <<>> THEN 0 ELSE Head(s) + SeqSum(Tail(s))

Abs(n) == IF n < 0 THEN -n ELSE n

Sgn(n) == IF n < 0 THEN -1 ELSE IF n > 0 THEN 1 ELSE 0

RECURSIVE Pow10(_)
Pow10(k) == IF k = 0 THEN 1 ELSE 10 * Pow10(k - 1)

----------------------------------------------------------------------------
(* Symbolic expressions of example.ipynb *)

RateSymbols == {"w01", "w10", "w02", "w20", "w03", "w30", "w12", "w21", "w23", "w32"}

ParamAtoms == {"exp(f/2)", "exp(g/2)", "b"}

Atoms == RateSymbols \cup ParamAtoms

\* the monomial 1
One == [a \in Atoms |-> 0]

\* the monomial that is the single atom s
Sym(s) == [a \in Atoms |-> IF a = s THEN 1 ELSE 0]

Mul(m, n) == [a \in Atoms |-> m[a] + n[a]]

Quot(m, n) == [a \in Atoms |-> m[a] - n[a]]

Pw(m, k) == [a \in Atoms |-> k * m[a]]

RECURSIVE Prod(_)
Prod(ms) == IF ms = <<>> THEN One ELSE Mul(Head(ms), Prod(Tail(ms)))

\* the atoms a monomial depends on
FreeAtoms(m) == {a \in Atoms : m[a] # 0}

\* expr.subs(old, new) for one pair <<old, new>>, old a symbol
Subs1(m, pair) ==
    LET k == m[pair[1]]
    IN  IF k = 0 THEN m
        ELSE [a \in Atoms |-> (IF a = pair[1] THEN 0 ELSE m[a]) + k * pair[2][a]]

\* expr.subs(list): the pairs are applied one after the other, in list order
RECURSIVE Subs(_, _)
Subs(m, list) == IF list = <<>> THEN m ELSE Subs(Subs1(m, Head(list)), Tail(list))

\* simplify(log(m)) for positive atoms: a linear form, coefficients in halves,
\* with log(exp(f/2)) = f/2
LogAtoms == RateSymbols \cup {"f", "g", "log(b)"}

Log(m) ==
    [a \in LogAtoms |->
        CASE a = "f" -> m["exp(f/2)"]
          [] a = "g" -> m["exp(g/2)"]
          [] a = "log(b)" -> 2 * m["b"]
          [] OTHER -> 2 * m[a]]

\* the linear form cf*f + cg*g
LinFG(cf, cg) ==
    [a \in LogAtoms |-> IF a = "f" THEN 2 * cf ELSE IF a = "g" THEN 2 * cg ELSE 0]

\* a slip in the dictionary: the edge (3,2) given the symbol of (2,3)
Model4StateDict_SameSymbol ==
    (<<0, 1>> :> "w01") @@ (<<1, 0>> :> "w10") @@
    (<<0, 2>> :> "w02") @@ (<<2, 0>> :> "w20") @@
    (<<0, 3>> :> "w03") @@ (<<3, 0>> :> "w30") @@
    (<<1, 2>> :> "w12") @@ (<<2, 1>> :> "w21") @@
    (<<2, 3>> :> "w23") @@ (<<3, 2>> :> "w23")

\* cell 3: the model topology
Model4StateDict ==
    (<<0, 1>> :> "w01") @@ (<<1, 0>> :> "w10") @@
    (<<0, 2>> :> "w02") @@ (<<2, 0>> :> "w20") @@
    (<<0, 3>> :> "w03") @@ (<<3, 0>> :> "w30") @@
    (<<1, 2>> :> "w12") @@ (<<2, 1>> :> "w21") @@
    (<<2, 3>> :> "w23") @@ (<<3, 2>> :> "w32")

\* cell 4: the parametrization
rate_cw == Pw(Sym("exp(f/2)"), 1)

\* a slip of sign: the counter-clockwise rate with the exponent +f/2
rate_ccw_SameSign == Pw(Sym("exp(f/2)"), 1)

rate_ccw == Pw(Sym("exp(f/2)"), -1)

w01p == rate_cw
w12p == rate_cw
w23p == rate_cw
w30p == rate_cw

w03p == rate_ccw
w32p == rate_ccw
w21p == rate_ccw
w10p == rate_ccw

w02p == Mul(Sym("b"), Pw(Sym("exp(g/2)"), 1))

\* a slip of sign: w20 with the exponent +g/2
w20p_SameSign == Mul(Sym("b"), Pw(Sym("exp(g/2)"), 1))

w20p == Mul(Sym("b"), Pw(Sym("exp(g/2)"), -1))

\* slips in the list: the last two pairs crossed
RatesParametrizedList_Crossed ==
    << <<"w01", w01p>>, <<"w10", w10p>>, <<"w02", w02p>>, <<"w20", w20p>>,
       <<"w12", w12p>>, <<"w21", w21p>>, <<"w23", w23p>>, <<"w32", w32p>>,
       <<"w30", w03p>>, <<"w03", w30p>> >>

\* the last pair given for w30 again instead of w03
RatesParametrizedList_Repeated ==
    << <<"w01", w01p>>, <<"w10", w10p>>, <<"w02", w02p>>, <<"w20", w20p>>,
       <<"w12", w12p>>, <<"w21", w21p>>, <<"w23", w23p>>, <<"w32", w32p>>,
       <<"w30", w30p>>, <<"w30", w03p>> >>

RatesParametrizedList ==
    << <<"w01", w01p>>, <<"w10", w10p>>, <<"w02", w02p>>, <<"w20", w20p>>,
       <<"w12", w12p>>, <<"w21", w21p>>, <<"w23", w23p>>, <<"w32", w32p>>,
       <<"w30", w30p>>, <<"w03", w03p>> >>

\* a wrong choice of chords: removing (0,1) and (1,2) cuts state 1 off
Chords_Disconnecting == << <<0, 1>>, <<1, 2>> >>

\* cell 5: the fundamental chords handed to getCumulants
Chords == << <<0, 1>>, <<0, 2>> >>

\* cell 7: the rate products of the two cycle affinities
Aff0Num == <<"w01", "w12", "w23", "w30">>

Aff0Den == <<"w10", "w21", "w32", "w03">>

\* the rate product of the upper half circuit 0->2->1->0 instead
Aff1Num_UpperHalf == <<"w02", "w21", "w10">>

Aff1Num == <<"w02", "w23", "w30">>

Aff1Den == <<"w03", "w32", "w20">>

SymProd(names) == Prod([i \in 1..Len(names) |-> Sym(names[i])])

Affinity(num, den, list) == Log(Subs(Quot(SymProd(num), SymProd(den)), list))

----------------------------------------------------------------------------
(* Grids, lambdified functions and pplot *)

\* np.linspace(a, b, n): n evenly spaced points from a to b, both included,
\* as numerators over the common denominator n-1
Linspace(a, b, n) == [i \in 1..n |-> a * (n - 1) + (i - 1) * (b - a)]

\* the two arrays of meshgrid(xs, ys): one row per point of ys
MeshX(xs, ys) == [r \in 1..Len(ys) |-> xs]

MeshY(xs, ys) == [r \in 1..Len(ys) |-> [c \in 1..Len(xs) |-> ys[r]]]

\* the range an array spans, with the denominator n-1 taken out
Spans(A, lo, hi, n) ==
    /\ A # <<>>
    /\ \A r \in DOMAIN A : \A c \in DOMAIN A[r] :
           lo * (n - 1) <= A[r][c] /\ A[r][c] <= hi * (n - 1)
    /\ \E r \in DOMAIN A : \E c \in DOMAIN A[r] : A[r][c] = lo * (n - 1)
    /\ \E r \in DOMAIN A : \E c \in DOMAIN A[r] : A[r][c] = hi * (n - 1)

\* The functions the external modules return are not part of the source: the
\* model draws them from this family.  A function has the value
\* sign * 10^mag, times the sign of one of its arguments for the odd kinds.
Kinds3 == {"const", "odd1", "odd2", "odd3"}

Kinds2 == {"const", "odd1", "odd2"}

TestFuns(kinds) == [kind : kinds, sign : {-1, 0, 1}, mag : 0..MaxMag]

Eval3(t, a1, a2, a3) ==
    t.sign * Pow10(t.mag) *
        (CASE t.kind = "const" -> 1
           [] t.kind = "odd1" -> Sgn(a1)
           [] t.kind = "odd2" -> Sgn(a2)
           [] t.kind = "odd3" -> Sgn(a3))

KindSeq == <<"const", "odd1", "odd2", "odd3">>

KindIndex(k) == CHOOSE i \in 1..Len(KindSeq) : KindSeq[i] = k

\* the i-th function of a library whose first function is t
Variant(t, i, nkinds) ==
    [kind |-> KindSeq[((KindIndex(t.kind) - 1 + i) % nkinds) + 1],
     sign |-> t.sign,
     mag  |-> (t.mag + i) % (MaxMag + 1)]

\* the value np.log(0) = -inf
NegInf == -1000000

\* np.log(np.abs(v))/np.log(10) for v = 0 or a power of ten up to sign
RECURSIVE Log10Abs(_)
Log10Abs(v) ==
    IF v = 0 THEN NegInf
    ELSE IF Abs(v) < 10 THEN 0
    ELSE 1 + Log10Abs(Abs(v) \div 10)

MapLog10Abs(A) == [r \in DOMAIN A |-> [c \in DOMAIN A[r] |-> Log10Abs(A[r][c])]]

\* g(A, B) for the callables handed to pplot:
\*   "fg1": lambda f,g: h(f,g,1)    "ffb": lambda f,b: h(f,f,b)
\*   "xy" : a function of two arguments
CallG(g, A, B) ==
    [r \in DOMAIN A |-> [c \in DOMAIN A[r] |->
        CASE g.adapt = "fg1" -> Eval3(g.tf, A[r][c], B[r][c], 1)
          [] g.adapt = "ffb" -> Eval3(g.tf, A[r][c], A[r][c], B[r][c])
          [] g.adapt = "xy"  -> Eval3(g.tf, A[r][c], B[r][c], 0)]]

\* arange(-20,20,1)
BlackLevels == [i \in 1..40 |-> i - 21]

Contour(x, y, z, levels, color) ==
    [x |-> x, y |-> y, z |-> z, levels |-> levels, color |-> color]

\* a slip in pplot: the highlighted contour taken from the plotted values G
ExamplePplot_HighlightOfG(g, t, x, y, logplot, highlight, crop, gX, gY, area) ==
    LET G  == IF logplot THEN MapLog10Abs(CallG(g, gX, gY)) ELSE CallG(g, gX, gY)
        GG == G
        ccmm == IF logplot THEN "gist_earth" ELSE "coolwarm"
    IN  [fig |->
            [image |-> Reverse(G), cmap |-> ccmm, extent |-> area,
             clim |-> IF Len(crop) = 2 THEN crop ELSE <<>>,
             contours |-> << Contour(gX, gY, G, BlackLevels, "black"),
                             Contour(gX, gY, GG, <<highlight>>, "white") >>,
             title |-> t, xlabel |-> x, ylabel |-> y],
         calls |-> << <<gX, gY>> >>]

\* pplot of example.ipynb; gX, gY, area are the globals X, Y, plotarea
ExamplePplot(g, t, x, y, logplot, highlight, crop, gX, gY, area) ==
    LET G  == IF logplot THEN MapLog10Abs(CallG(g, gX, gY)) ELSE CallG(g, gX, gY)
        GG == CallG(g, gX, gY)
        ccmm == IF logplot THEN "gist_earth" ELSE "coolwarm"
    IN  [fig |->
            [image |-> Reverse(G), cmap |-> ccmm, extent |-> area,
             clim |-> IF Len(crop) = 2 THEN crop ELSE <<>>,
             contours |-> << Contour(gX, gY, G, BlackLevels, "black"),
                             Contour(gX, gY, GG, <<highlight>>, "white") >>,
             title |-> t, xlabel |-> x, ylabel |-> y],
         calls |-> IF logplot THEN << <<gX, gY>>, <<gX, gY>> >> ELSE << <<gX, gY>> >>]

\* pplot of kinesin.ipynb; g.array is the data when g is an array (numerical)
KinesinPplot(g, t, logplot, highlight, crop, numerical, gX, gY, area) ==
    LET G  == IF numerical THEN g.array
              ELSE IF logplot THEN MapLog10Abs(CallG(g, gX, gY))
              ELSE CallG(g, gX, gY)
        GG == IF numerical THEN g.array ELSE CallG(g, gX, gY)
        ccmm == IF numerical THEN "YlOrBr"
                ELSE IF logplot THEN "gist_earth" ELSE "coolwarm"
    IN  [fig |->
            [image |-> Reverse(G), cmap |-> ccmm, extent |-> area,
             clim |-> IF Len(crop) = 2 THEN crop ELSE <<>>,
             contours |-> IF numerical THEN <<>>
                          ELSE << Contour(gX, gY, G, BlackLevels, "black"),
                                  Contour(gX, gY, GG, <<highlight>>, "white") >>,
             title |-> t, xlabel |-> "$f$", ylabel |-> "$\\Delta \\mu$"],
         calls |-> IF numerical THEN <<>>
                   ELSE IF logplot THEN << <<gX, gY>>, <<gX, gY>> >>
                   ELSE << <<gX, gY>> >>]

----------------------------------------------------------------------------
(* Cells and statements *)

\* a statement: the global names it reads, the global names it binds, and
\* the pplot call it makes, if any
St(r, w) == [reads |-> r, writes |-> w, call |-> <<>>]

PlotSt(r, c) == [reads |-> r, writes |-> {}, call |-> <<c>>]

\* names of the Python builtins the cells use
Builtins == {"print"}

\* Statements i.. of a cell are executed in order until one reads a name that
\* is not bound (NameError): n statements were executed, `written` are the
\* names they bound.
RECURSIVE RunFrom(_, _, _, _)
RunFrom(cell, i, b, w) ==
    IF i > Len(cell) THEN [bound |-> b, written |-> w, n |-> i - 1, ok |-> TRUE]
    ELSE IF cell[i].reads \subseteq (b \cup Builtins)
         THEN RunFrom(cell, i + 1, b \cup cell[i].writes, w \cup cell[i].writes)
         ELSE [bound |-> b, written |-> w, n |-> i - 1, ok |-> FALSE]

RunCell(cell, b) == RunFrom(cell, 1, b, {})

\* the pplot calls among the first n statements of a cell
CallsOf(cell, n) ==
    LET done == SelectSeq(SubSeq(cell, 1, n), LAMBDA st : st.call # <<>>)
    IN  [i \in 1..Len(done) |-> done[i].call[1]]

\* names "%pylab inline" binds (those the notebooks use)
PylabNames ==
    {"figure", "linspace", "arange", "meshgrid", "cm", "imshow", "contour", "clabel",
     "colorbar", "axis", "title", "show", "xlabel", "ylabel", "tick_params",
     "display", "GridSpec", "text", "setp", "np", "plt"}

\* names "from sympy import *" binds (those the notebooks use)
SympyNames ==
    {"symbols", "Rational", "exp", "log", "simplify", "factor", "lambdify", "N",
     "init_printing"}

----------------------------------------------------------------------------
(* example.ipynb *)

ESymbolNames == RateSymbols

EParamNames == {"w01p", "w12p", "w23p", "w30p", "w03p", "w32p", "w21p", "w10p"}

EObservables == <<"topcL", "cencL", "epL", "topdL", "cendL", "covL", "resL">>

\* global names the body of pplot reads when it is called
EPplotReads(logplot) ==
    {"pplot", "figure", "fig_size", "np", "X", "Y", "imshow",
     "plotarea", "contour", "arange", "colorbar", "title", "font", "xlabel", "ylabel",
     "tick_params", "ts"} \cup {IF logplot THEN "colormap1" ELSE "colormap2"}

\* pplot(lambda ...: h(...), t, x, y, logplot)
ECall(h, adapt, t, y, logplot) ==
    PlotSt(EPplotReads(logplot) \cup {h},
           [g |-> [name |-> h, adapt |-> adapt], t |-> t, x |-> "$f$", y |-> y,
            logplot |-> logplot, highlight |-> 0, crop |-> <<>>])

ECell1 ==
    << St({}, PylabNames), St({}, SympyNames), St({"init_printing"}, {}),
       St({}, {"np"}), St({}, {"time"}), St({}, {"rc"}), St({"rc"}, {}) >>

ECell2 == << St({}, {"cumulants"}) >>

ECell3 ==
    << St({"symbols"}, ESymbolNames),
       St(ESymbolNames, {"model4State"}) >>

ECell4 ==
    << St({"symbols"}, {"b"}), St({"symbols"}, {"f", "g"}),
       St({"symbols"}, {"x", "y"}), St({"symbols"}, {"u", "v", "w"}),
       St({"Rational"}, {"onehalf"}),
       St({"exp", "onehalf", "f"}, {"rate_cw"}), St({"exp", "onehalf", "f"}, {"rate_ccw"}),
       St({"rate_cw"}, {"w01p", "w12p", "w23p", "w30p"}),
       St({"rate_ccw"}, {"w03p", "w32p", "w21p", "w10p"}),
       St({"b", "exp", "onehalf", "g"}, {"w02p"}),
       St({"b", "exp", "onehalf", "g"}, {"w20p"}),
       St(ESymbolNames \cup EParamNames \cup {"w02p", "w20p"}, {"rates_parametrized"}) >>

ECell5 == << St({"cumulants", "model4State", "rates_parametrized"}, {"c", "C"}) >>

ECell6 ==
    << St({"time"}, {"t0"}), St({"simplify", "factor", "c"}, {"c"}),
       St({"factor", "simplify", "C"}, {"C"}), St({"display", "time", "t0"}, {}) >>

ECell7 ==
    << St({"simplify", "log", "rates_parametrized"} \cup Range(Aff0Num) \cup Range(Aff0Den),
          {"aff0"}),
       St({"simplify", "log", "rates_parametrized"} \cup Range(Aff1Num) \cup Range(Aff1Den),
          {"aff1"}),
       St({"display", "aff0", "aff1"}, {}),
       St({"c"}, {"topc"}), St({"c"}, {"cenc"}),
       St({"simplify", "c", "aff0", "aff1"}, {"ep"}),
       St({"onehalf", "C"}, {"topd"}), St({"onehalf", "C"}, {"cend"}),
       St({"C"}, {"cov"}), St({"c", "f", "C"}, {"res"}) >>

ECell8 ==
    << St({"display"}, {}), St({"display", "topc"}, {}), St({"display", "cenc"}, {}),
       St({"display"}, {}), St({"display", "ep"}, {}) >>

\* the loop variable of a list comprehension is a global in Python 2
ECell9 ==
    << St({"lambdify", "f", "g", "b", "N", "topc", "cenc", "ep", "topd", "cend", "cov", "res"},
          Range(EObservables) \cup {"thing"}) >>

\* a slip in the grid cell: the grid bound to XX, YY instead of X, Y
ECell10_OtherNames ==
    << St({}, {"meshgrid", "cm", "imshow", "contour", "clabel", "colorbar", "axis",
               "title", "show"}),
       St({}, {"xmin", "xmax", "ymin", "ymax"}), St({}, {"resolution"}),
       St({"xmin", "xmax", "ymin", "ymax"}, {"plotarea"}),
       St({"linspace", "xmin", "xmax", "resolution"}, {"xpts"}),
       St({"linspace", "ymin", "ymax", "resolution"}, {"ypts"}),
       St({"meshgrid", "xpts", "ypts"}, {"XX", "YY"}) >>

ECell10 ==
    << St({}, {"meshgrid", "cm", "imshow", "contour", "clabel", "colorbar", "axis",
               "title", "show"}),
       St({}, {"xmin", "xmax", "ymin", "ymax"}), St({}, {"resolution"}),
       St({"xmin", "xmax", "ymin", "ymax"}, {"plotarea"}),
       St({"linspace", "xmin", "xmax", "resolution"}, {"xpts"}),
       St({"linspace", "ymin", "ymax", "resolution"}, {"ypts"}),
       St({"meshgrid", "xpts", "ypts"}, {"X", "Y"}) >>

ECell11 ==
    << St({}, {"fig_size"}), St({}, {"fs"}), St({"cm"}, {"colormap1"}),
       St({"cm"}, {"colormap2"}), St({"fs"}, {"font"}), St({}, {"ts"}),
       St({}, {"figdir"}), St({}, {"pplot"}) >>

ECell12 ==
    << ECall("topcL", "fg1", "Average current through top edge (log scale)", "$g$", TRUE),
       ECall("cencL", "fg1", "Average current through center edge (log scale)", "$g$", TRUE),
       ECall("epL", "fg1", "Steady state entropy production (log scale)", "$g$", TRUE),
       ECall("topcL", "ffb", "Average current through top edge (log scale)", "$b$", TRUE),
       ECall("cencL", "ffb", "Average current through center edge (log scale)", "$b$", TRUE),
       ECall("epL", "ffb", "Steady state entropy production (log scale)", "$b$", TRUE),
       St({"print"}, {}) >>

ECell13 ==
    << ECall("topdL", "fg1", "Diffusion top edge (log scale)", "$g$", TRUE),
       ECall("cendL", "fg1", "Diffusion center edge (log scale)", "$g$", TRUE),
       ECall("resL", "fg1", "Normalized $f$-response in top edge", "$g$", FALSE),
       ECall("topdL", "ffb", "Average current through top edge (log scale)", "$b$", TRUE),
       ECall("cendL", "ffb", "Average current through center edge (log scale)", "$b$", TRUE),
       ECall("resL", "ffb", "Normalized $f$-response in top edge", "$b$", FALSE),
       St({"print"}, {}) >>

ECell14 == << >>

ECells ==
    << ECell1, ECell2, ECell3, ECell4, ECell5, ECell6, ECell7, ECell8, ECell9,
       ECell10, ECell11, ECell12, ECell13, ECell14 >>

\* [xmin, xmax, ymin, ymax] = [-10,10,.01,20], in hundredths
EPlotRange == <<-1000, 1000, 1, 2000>>

\* the function the name h of EObservables is bound to by lambdify
EFun(lib, h) ==
    Variant(lib, (CHOOSE i \in 1..Len(EObservables) : EObservables[i] = h) - 1, 4)

\* the figures the first n statements of a cell of example.ipynb show
EFigures(cell, n, lib, gX, gY, area) ==
    LET cs == CallsOf(cell, n)
    IN  [i \in 1..Len(cs) |->
            ExamplePplot([tf |-> EFun(lib, cs[i].g.name), adapt |-> cs[i].g.adapt,
                          array |-> <<>>],
                         cs[i].t, cs[i].x, cs[i].y, cs[i].logplot, cs[i].highlight,
                         cs[i].crop, gX, gY, area).fig]

\* "Run All": code cell k of example.ipynb runs when the cells before it have
\* run; a NameError stops the run.
ERunCell(k) ==
    /\ epc = k
    /\ ~eerr
    /\ LET r  == RunCell(ECells[k], ebound)
           wr == r.written
           xs == Linspace(EPlotRange[1], EPlotRange[2], GridRes)
           ys == Linspace(EPlotRange[3], EPlotRange[4], GridRes)
       IN  /\ ebound' = r.bound
           /\ eerr' = ~r.ok
           /\ epc' = IF r.ok THEN k + 1 ELSE k
           /\ model4State' =
                  IF "model4State" \in wr THEN Model4StateDict ELSE model4State
           /\ rates_parametrized' =
                  IF "rates_parametrized" \in wr THEN RatesParametrizedList
                  ELSE rates_parametrized
           /\ aff0' = IF "aff0" \in wr
                      THEN Affinity(Aff0Num, Aff0Den, rates_parametrized) ELSE aff0
           /\ aff1' = IF "aff1" \in wr
                      THEN Affinity(Aff1Num, Aff1Den, rates_parametrized) ELSE aff1
           /\ eplotarea' = IF "plotarea" \in wr THEN EPlotRange ELSE eplotarea
           /\ eX' = IF "X" \in wr THEN MeshX(xs, ys) ELSE eX
           /\ eY' = IF "Y" \in wr THEN MeshY(xs, ys) ELSE eY
           /\ eout' = [eout EXCEPT
                          ![k] = EFigures(ECells[k], r.n, cumlib, eX, eY, eplotarea)]
    /\ UNCHANGED <<cumlib, kvars, pvars>>

Cell_Setup == ERunCell(1)

Cell_ImportCumulants == ERunCell(2)

Cell_Model == ERunCell(3)

Cell_Parametrize == ERunCell(4)

Cell_GetCumulants == ERunCell(5)

Cell_Simplify == ERunCell(6)

Cell_Observables == ERunCell(7)

Cell_Display == ERunCell(8)

Cell_Lambdify == ERunCell(9)

Cell_Grid == ERunCell(10)

Cell_FigureSetup == ERunCell(11)

Cell_PlotCurrents == ERunCell(12)

Cell_PlotDiffusion == ERunCell(13)

Cell_Empty == ERunCell(14)

ENext ==
    \/ Cell_Setup
    \/ Cell_ImportCumulants
    \/ Cell_Model
    \/ Cell_Parametrize
    \/ Cell_GetCumulants
    \/ Cell_Simplify
    \/ Cell_Observables
    \/ Cell_Display
    \/ Cell_Lambdify
    \/ Cell_Grid
    \/ Cell_FigureSetup
    \/ Cell_PlotCurrents
    \/ Cell_PlotDiffusion
    \/ Cell_Empty

----------------------------------------------------------------------------
(* kinesin.ipynb *)

\* the functions lau() and ll(quick=True) return, in the order they are bound
KFunNames ==
    <<"velocityLa", "diffusionLa", "tmechLa",
      "vel6", "hyd6", "dif6", "coupling6", "invfano6", "tmech6",
      "vel4", "hyd4", "dif4", "coupling4", "invfano4", "tmech4",
      "vel_relerr", "hyd_relerr", "dif_relerr">>

KFun(lib, h) ==
    [tf |-> Variant(lib, (CHOOSE i \in 1..Len(KFunNames) : KFunNames[i] = h) - 1, 3),
     adapt |-> "xy", array |-> <<>>]

\* the outcomes of the external lambdification module the model draws from
KLibs == {t \in TestFuns(Kinds2) : t.sign = -1 /\ t.mag = 0}

\* [fmin, fmax, mumin, mumax] of the two grid cells
FullRange == <<-30, 30, -30, 30>>

ZoomRange == <<0, 20, 5, 30>>

\* global names the body of pplot reads when it is called with a function
KPplotReads ==
    {"pplot", "figure", "fig_size", "np", "X", "Y", "cm", "imshow", "plotarea",
     "contour", "arange", "colorbar", "title", "font", "xlabel", "ylabel"}

\* global names the body of pplot reads when it is called with numerical=True
KPplotReadsNumerical ==
    {"pplot", "figure", "fig_size", "cm", "imshow", "plotarea", "colorbar", "title",
     "font", "xlabel", "ylabel"}

KCall(h, t, logplot, highlight, crop) ==
    PlotSt(KPplotReads \cup {h},
           [g |-> h, t |-> t, logplot |-> logplot, highlight |-> highlight,
            crop |-> crop, numerical |-> FALSE])

KCallNumerical(h, t, crop) ==
    PlotSt(KPplotReadsNumerical \cup {h},
           [g |-> h, t |-> t, logplot |-> TRUE, highlight |-> 0,
            crop |-> crop, numerical |-> TRUE])

KCell1 ==
    << St({}, PylabNames), St({}, SympyNames), St({"init_printing"}, {}),
       St({}, {"np"}), St({}, {"time"}), St({}, {"rc"}), St({"rc"}, {}),
       St({}, {"plt"}),
       St({}, {"meshgrid", "cm", "imshow", "contour", "clabel", "colorbar", "axis",
               "title", "show"}) >>

KCell2 == << St({}, {"lau", "ll"}) >>

KCell3 == << St({"lau"}, {"velocityLa", "diffusionLa", "tmechLa"}) >>

KCell4 ==
    << St({"ll"},
          {"vel6", "hyd6", "dif6", "coupling6", "invfano6", "tmech6",
           "vel4", "hyd4", "dif4", "coupling4", "invfano4", "tmech4",
           "vel_relerr", "hyd_relerr", "dif_relerr"}) >>

KCell5 ==
    << St({}, {"fmin", "fmax", "mumin", "mumax"}), St({}, {"resolution"}),
       St({"fmin", "fmax", "mumin", "mumax"}, {"plotarea"}),
       St({"linspace", "fmin", "fmax", "resolution"}, {"xpts"}),
       St({"linspace", "mumin", "mumax", "resolution"}, {"ypts"}),
       St({"meshgrid", "xpts", "ypts"}, {"X", "Y"}) >>

\* a slip in the zoomed grid cell: the grid bound to X, Y instead of XX, YY
KCell6_SharedNames ==
    << St({}, {"fmin", "fmax", "mumin", "mumax"}), St({}, {"resolution"}),
       St({"fmin", "fmax", "mumin", "mumax"}, {"zoomarea"}),
       St({"linspace", "fmin", "fmax", "resolution"}, {"xpts"}),
       St({"linspace", "mumin", "mumax", "resolution"}, {"ypts"}),
       St({"meshgrid", "xpts", "ypts"}, {"X", "Y"}) >>

KCell6 ==
    << St({}, {"fmin", "fmax", "mumin", "mumax"}), St({}, {"resolution"}),
       St({"fmin", "fmax", "mumin", "mumax"}, {"zoomarea"}),
       St({"linspace", "fmin", "fmax", "resolution"}, {"xpts"}),
       St({"linspace", "mumin", "mumax", "resolution"}, {"ypts"}),
       St({"meshgrid", "xpts", "ypts"}, {"XX", "YY"}) >>

KCell7 ==
    << St({"vel6", "X", "Y"}, {"V6"}), St({"np", "V6"}, {"log_V6"}),
       St({"hyd6", "X", "Y"}, {"H6"}), St({"np", "H6"}, {"log_H6"}),
       St({"dif6", "X", "Y"}, {"D6"}), St({"np", "D6"}, {"log_D6"}),
       St({"coupling6", "X", "Y"}, {"QTC6"}), St({"invfano6", "X", "Y"}, {"F6"}),
       St({"tmech6", "X", "Y"}, {"T6"}),
       St({"vel_relerr", "X", "Y"}, {"V_relerr"}),
       St({"hyd_relerr", "X", "Y"}, {"H_relerr"}),
       St({"dif_relerr", "X", "Y"}, {"D_relerr"}) >>

KCell8 ==
    << St({"velocityLa", "XX", "YY"}, {"VLa_comp"}),
       St({"tmechLa", "XX", "YY"}, {"TLa_comp"}),
       St({"vel6", "XX", "YY"}, {"V6_comp"}),
       St({"tmech6", "XX", "YY"}, {"T6_comp"}) >>

KCell9 ==
    << St({}, {"fig_size"}), St({}, {"fs"}), St({"fs"}, {"font"}),
       St({}, {"figdir"}), St({}, {"pplot"}) >>

KCell10 ==
    << KCall("vel6", "Velocity 6-state (Fig. 5b)", TRUE, 0, <<-20, 2>>),
       KCall("dif6", "Diffusion 6-state (Fig. 7a)", TRUE, 0, <<-20, 2>>),
       KCall("coupling6", "Current ratio 6-state (Fig. 5c)", FALSE, 1, <<-2, 2>>),
       KCall("tmech6", "Mechanical Response 6-state (Fig. 8)", FALSE, 1, <<-2, 2>>),
       St({"X", "vel6", "Y"}, {"P_mech"}), St({"Y", "hyd6", "X"}, {"P_chem"}),
       St({"np", "P_mech", "P_chem"}, {"inversion"}),
       St({"P_mech", "P_chem"}, {"eff"}),
       St({"np", "eff", "inversion"}, {"EFF"}),
       KCallNumerical("EFF", "Efficiency", <<0, 1>>),
       St({"print"}, {}) >>

KCell11 ==
    << KCall("vel4", "Velocity 4-state", TRUE, 0, <<-20, 2>>),
       KCall("dif4", "Diffusion 4-state", TRUE, 0, <<-20, 2>>),
       KCall("coupling4", "Current ratio 4-state", FALSE, 1, <<-2, 2>>),
       KCall("tmech4", "Normalized mechanical response 4-state", FALSE, 1, <<-2, 2>>),
       St({"print"}, {}) >>

KCell12 ==
    << KCall("velocityLa", "Velocity Lau et. al. (2007)", TRUE, 0, <<-20, 2>>),
       KCall("diffusionLa", "Diffusion Lau et. al. (2007)", TRUE, 0, <<-20, 2>>),
       KCall("tmechLa", "Mechanical Response Lau et. al. (2007)", FALSE, 1, <<-2, 2>>),
       St({"print"}, {}) >>

KCell13 ==
    << St({}, {"tango_chameleon3"}), St({}, {"tango_sky3"}), St({}, {"overlay"}),
       St({}, {"a"}), St({"figure", "a"}, {"f"}), St({"GridSpec"}, {"gs"}),
       St({"f", "gs"}, {"axLL"}),
       St({"axLL", "T6_comp", "cm", "zoomarea"}, {"im"}),
       St({"contour", "XX", "YY", "V6_comp"}, {"stalling"}),
       St({"contour", "XX", "YY", "T6_comp", "tango_chameleon3"}, {"FDR"}),
       St({"FDR"}, {"c"}),
       St({"contour", "XX", "YY", "T6_comp", "tango_sky3"}, {"NDR"}),
       St({"NDR"}, {"c"}),
       St({"text", "overlay"}, {}), St({"xlabel"}, {}), St({"ylabel"}, {}),
       St({"im"}, {}),
       St({"f", "gs"}, {"axLa"}),
       St({"axLa", "TLa_comp", "cm", "zoomarea"}, {"im"}),
       St({"contour", "XX", "YY", "VLa_comp"}, {"stalling"}),
       St({"contour", "XX", "YY", "TLa_comp", "tango_chameleon3"}, {"FDR"}),
       St({"FDR"}, {"c"}),
       St({"contour", "XX", "YY", "TLa_comp", "tango_sky3"}, {"NDR"}),
       St({"NDR"}, {"c"}),
       St({"text", "overlay"}, {}),
       St({"setp", "axLa"}, {}), St({"axLL", "arange"}, {}),
       St({"xlabel"}, {}), St({"im"}, {}),
       St({"colorbar", "im", "arange"}, {"cb"}) >>

KCell14 == << >>

KCells ==
    << KCell1, KCell2, KCell3, KCell4, KCell5, KCell6, KCell7, KCell8, KCell9,
       KCell10, KCell11, KCell12, KCell13, KCell14 >>

\* the range the grid cell k sets
KRangeOf(k) == IF k = 5 THEN FullRange ELSE ZoomRange

DataNames ==
    {"V6", "log_V6", "H6", "log_H6", "D6", "log_D6", "QTC6", "F6", "T6",
     "V_relerr", "H_relerr", "D_relerr",
     "VLa_comp", "TLa_comp", "V6_comp", "T6_comp",
     "P_mech", "P_chem", "inversion", "eff", "EFF"}

\* elementwise A*B
ArrMul(A, B) == [r \in DOMAIN A |-> [c \in DOMAIN A[r] |-> A[r][c] * B[r][c]]]

\* elementwise np.sign(A)*np.sign(B)
ArrSignProd(A, B) ==
    [r \in DOMAIN A |-> [c \in DOMAIN A[r] |-> Sgn(A[r][c]) * Sgn(B[r][c])]]

\* elementwise A/B, as the fraction <<numerator, denominator>>
ArrDiv(A, B) == [r \in DOMAIN A |-> [c \in DOMAIN A[r] |-> <<A[r][c], B[r][c]>>]]

\* np.minimum(e**i, e**(-i)) for the fraction e = p/q and i = sign(p)*sign(q):
\* with i = 0 both powers are 1, else the smaller of e and 1/e
EffMin(e) ==
    LET p == e[1]
        q == e[2]
    IN  IF p = 0 \/ q = 0 THEN <<1, 1>>
        ELSE IF Sgn(p) = Sgn(q)
             THEN (IF Abs(p) <= Abs(q) THEN <<Abs(p), Abs(q)>> ELSE <<Abs(q), Abs(p)>>)
             ELSE (IF Abs(p) >= Abs(q) THEN <<-Abs(p), Abs(q)>> ELSE <<-Abs(q), Abs(p)>>)

ArrEffMin(E) == [r \in DOMAIN E |-> [c \in DOMAIN E[r] |-> EffMin(E[r][c])]]

\* the data arrays after a cell bound the names wr
KData(wr, d, lib, gX, gY, gXX, gYY) ==
    LET on(h, A, B) == CallG(KFun(lib, h), A, B)
        V6  == IF "V6" \in wr THEN on("vel6", gX, gY) ELSE d["V6"]
        H6  == IF "H6" \in wr THEN on("hyd6", gX, gY) ELSE d["H6"]
        D6  == IF "D6" \in wr THEN on("dif6", gX, gY) ELSE d["D6"]
        Pm  == IF "P_mech" \in wr THEN ArrMul(gX, on("vel6", gX, gY)) ELSE d["P_mech"]
        Pc  == IF "P_chem" \in wr THEN ArrMul(gY, on("hyd6", gX, gY)) ELSE d["P_chem"]
        inv == IF "inversion" \in wr THEN ArrSignProd(Pm, Pc) ELSE d["inversion"]
        eff == IF "eff" \in wr THEN ArrDiv(Pm, Pc) ELSE d["eff"]
        new == [n \in DataNames |->
                  CASE n = "V6" -> V6
                    [] n = "log_V6" -> MapLog10Abs(V6)
                    [] n = "H6" -> H6
                    [] n = "log_H6" -> MapLog10Abs(H6)
                    [] n = "D6" -> D6
                    [] n = "log_D6" -> MapLog10Abs(D6)
                    [] n = "QTC6" -> on("coupling6", gX, gY)
                    [] n = "F6" -> on("invfano6", gX, gY)
                    [] n = "T6" -> on("tmech6", gX, gY)
                    [] n = "V_relerr" -> on("vel_relerr", gX, gY)
                    [] n = "H_relerr" -> on("hyd_relerr", gX, gY)
                    [] n = "D_relerr" -> on("dif_relerr", gX, gY)
                    [] n = "VLa_comp" -> on("velocityLa", gXX, gYY)
                    [] n = "TLa_comp" -> on("tmechLa", gXX, gYY)
                    [] n = "V6_comp" -> on("vel6", gXX, gYY)
                    [] n = "T6_comp" -> on("tmech6", gXX, gYY)
                    [] n = "P_mech" -> Pm
                    [] n = "P_chem" -> Pc
                    [] n = "inversion" -> inv
                    [] n = "eff" -> eff
                    [] n = "EFF" -> ArrEffMin(eff)]
    IN  [n \in DataNames |-> IF n \in wr THEN new[n] ELSE d[n]]

\* the figures the pplot calls among the first n statements of a cell return
KFigures(cell, n, lib, d, gX, gY, area) ==
    LET cs == CallsOf(cell, n)
    IN  [i \in 1..Len(cs) |->
            KinesinPplot(IF cs[i].numerical
                         THEN [tf |-> lib, adapt |-> "array", array |-> d[cs[i].g]]
                         ELSE KFun(lib, cs[i].g),
                         cs[i].t, cs[i].logplot, cs[i].highlight, cs[i].crop,
                         cs[i].numerical, gX, gY, area).fig]

\* one panel of the comparison figure (Fig. 10)
ComparePanel(T, V, gXX, gYY, area) ==
    [image |-> Reverse(T), cmap |-> "coolwarm", extent |-> area, clim |-> <<-2, 2>>,
     contours |-> << Contour(gXX, gYY, V, <<0>>, "white"),
                     Contour(gXX, gYY, T, <<1>>, "tango_chameleon3"),
                     Contour(gXX, gYY, T, <<0>>, "tango_sky3") >>,
     title |-> "", xlabel |-> "$f$", ylabel |-> "$\\Delta\\mu$"]

\* Code cell k of kinesin.ipynb is run: any cell, at any time.
KRunCell(k) ==
    LET r  == RunCell(KCells[k], kbound)
        wr == r.written
        rg == KRangeOf(k)
        nfmin  == IF "fmin" \in wr THEN rg[1] ELSE fmin
        nfmax  == IF "fmax" \in wr THEN rg[2] ELSE fmax
        nmumin == IF "mumin" \in wr THEN rg[3] ELSE mumin
        nmumax == IF "mumax" \in wr THEN rg[4] ELSE mumax
        nxpts  == IF "xpts" \in wr THEN Linspace(nfmin, nfmax, GridRes) ELSE xpts
        nypts  == IF "ypts" \in wr THEN Linspace(nmumin, nmumax, GridRes) ELSE ypts
        ndata  == KData(wr, kdata, lamlib, X, Y, XX, YY)
    IN  /\ kbound' = r.bound
        /\ kdone' = IF r.ok THEN kdone \cup {k} ELSE kdone
        /\ kgrid' = IF k \in {5, 6} THEN k ELSE kgrid
        /\ fmin' = nfmin
        /\ fmax' = nfmax
        /\ mumin' = nmumin
        /\ mumax' = nmumax
        /\ xpts' = nxpts
        /\ ypts' = nypts
        /\ plotarea' = IF "plotarea" \in wr THEN <<nfmin, nfmax, nmumin, nmumax>>
                       ELSE plotarea
        /\ zoomarea' = IF "zoomarea" \in wr THEN <<nfmin, nfmax, nmumin, nmumax>>
                       ELSE zoomarea
        /\ X'  = IF "X" \in wr THEN MeshX(nxpts, nypts) ELSE X
        /\ Y'  = IF "Y" \in wr THEN MeshY(nxpts, nypts) ELSE Y
        /\ XX' = IF "XX" \in wr THEN MeshX(nxpts, nypts) ELSE XX
        /\ YY' = IF "YY" \in wr THEN MeshY(nxpts, nypts) ELSE YY
        /\ kdata' = ndata
        /\ kout' = [kout EXCEPT
                       ![k] = IF k = 13
                              THEN (IF r.ok
                                    THEN << ComparePanel(ndata["T6_comp"], ndata["V6_comp"],
                                                         XX, YY, zoomarea),
                                            ComparePanel(ndata["TLa_comp"], ndata["VLa_comp"],
                                                         XX, YY, zoomarea) >>
                                    ELSE <<>>)
                              ELSE KFigures(KCells[k], r.n, lamlib, ndata, X, Y, plotarea)]
        /\ UNCHANGED <<lamlib, evars, pvars>>

KCell_Setup == KRunCell(1)

KCell_ImportLambdas == KRunCell(2)

KCell_Lau == KRunCell(3)

KCell_LL == KRunCell(4)

KCell_FullGrid == KRunCell(5)

KCell_ZoomGrid == KRunCell(6)

KCell_FullData == KRunCell(7)

KCell_ZoomData == KRunCell(8)

KCell_FigureSetup == KRunCell(9)

KCell_PlotSixState == KRunCell(10)

KCell_PlotFourState == KRunCell(11)

KCell_PlotLau == KRunCell(12)

KCell_Fig10 == KRunCell(13)

KCell_Empty == KRunCell(14)

KNext ==
    \/ KCell_Setup
    \/ KCell_ImportLambdas
    \/ KCell_Lau
    \/ KCell_LL
    \/ KCell_FullGrid
    \/ KCell_ZoomGrid
    \/ KCell_FullData
    \/ KCell_ZoomData
    \/ KCell_FigureSetup
    \/ KCell_PlotSixState
    \/ KCell_PlotFourState
    \/ KCell_PlotLau
    \/ KCell_Fig10
    \/ KCell_Empty

----------------------------------------------------------------------------
(* Specifications *)

InitExample ==
    /\ epc = 1
    /\ ebound = {}
    /\ eerr = FALSE
    /\ model4State = <<>>
    /\ rates_parametrized = <<>>
    /\ aff0 = Log(One)
    /\ aff1 = Log(One)
    /\ eX = <<>>
    /\ eY = <<>>
    /\ eplotarea = <<>>
    /\ eout = [k \in 1..Len(ECells) |-> <<>>]
    /\ kbound = {}
    /\ fmin = 0 /\ fmax = 0 /\ mumin = 0 /\ mumax = 0
    /\ xpts = <<>> /\ ypts = <<>>
    /\ X = <<>> /\ Y = <<>> /\ plotarea = <<>>
    /\ XX = <<>> /\ YY = <<>> /\ zoomarea = <<>>
    /\ kdata = [n \in DataNames |-> <<>>]
    /\ kout = [k \in 1..Len(KCells) |-> <<>>]
    /\ kdone = {}
    /\ kgrid = 0
    /\ lamlib = [kind |-> "const", sign |-> 1, mag |-> 0]
    /\ pin = <<>>
    /\ pfig = <<>>
    /\ pcalls = <<>>
    /\ pstep = "idle"
    /\ cumlib \in TestFuns(Kinds3)

SpecExample == InitExample /\ [][ENext]_vars

InitKinesin ==
    /\ epc = 1
    /\ ebound = {}
    /\ eerr = FALSE
    /\ model4State = <<>>
    /\ rates_parametrized = <<>>
    /\ aff0 = Log(One)
    /\ aff1 = Log(One)
    /\ eX = <<>>
    /\ eY = <<>>
    /\ eplotarea = <<>>
    /\ eout = [k \in 1..Len(ECells) |-> <<>>]
    /\ cumlib = [kind |-> "const", sign |-> 1, mag |-> 0]
    /\ kbound = {}
    /\ fmin = 0 /\ fmax = 0 /\ mumin = 0 /\ mumax = 0
    /\ xpts = <<>> /\ ypts = <<>>
    /\ X = <<>> /\ Y = <<>> /\ plotarea = <<>>
    /\ XX = <<>> /\ YY = <<>> /\ zoomarea = <<>>
    /\ kdata = [n \in DataNames |-> <<>>]
    /\ kout = [k \in 1..Len(KCells) |-> <<>>]
    /\ kdone = {}
    /\ kgrid = 0
    /\ pin = <<>>
    /\ pfig = <<>>
    /\ pcalls = <<>>
    /\ pstep = "idle"
    /\ lamlib \in KLibs

SpecKinesin == InitKinesin /\ [][KNext]_vars

\* pplot as a function of its arguments and of the globals X, Y, plotarea
ExampleGrid ==
    LET xs == Linspace(EPlotRange[1], EPlotRange[2], GridRes)
        ys == Linspace(EPlotRange[3], EPlotRange[4], GridRes)
    IN  [X |-> MeshX(xs, ys), Y |-> MeshY(xs, ys), plotarea |-> EPlotRange]

KinesinGrid ==
    LET xs == Linspace(FullRange[1], FullRange[2], GridRes)
        ys == Linspace(FullRange[3], FullRange[4], GridRes)
    IN  [X |-> MeshX(xs, ys), Y |-> MeshY(xs, ys), plotarea |-> FullRange]

Highlights == {0, 1}

Crops == {<<>>, <<-2, 2>>}

ExampleInputs ==
    {[nb |-> "example", g |-> [tf |-> tf, adapt |-> ad, array |-> <<>>],
      logplot |-> lp, highlight |-> hl, crop |-> cr, numerical |-> FALSE,
      X |-> ExampleGrid.X, Y |-> ExampleGrid.Y, plotarea |-> ExampleGrid.plotarea] :
        tf \in TestFuns(Kinds3), ad \in {"fg1", "ffb"}, lp \in BOOLEAN,
        hl \in Highlights, cr \in Crops}

\* with numerical = TRUE the first argument is an array of values
KinesinInputs ==
    {[nb |-> "kinesin",
      g |-> IF nm
            THEN [tf |-> tf, adapt |-> "array",
                  array |-> CallG([tf |-> tf, adapt |-> "xy"], KinesinGrid.X, KinesinGrid.Y)]
            ELSE [tf |-> tf, adapt |-> "xy", array |-> <<>>],
      logplot |-> lp, highlight |-> hl, crop |-> cr, numerical |-> nm,
      X |-> KinesinGrid.X, Y |-> KinesinGrid.Y, plotarea |-> KinesinGrid.plotarea] :
        tf \in TestFuns(Kinds2), lp \in BOOLEAN, hl \in Highlights, cr \in Crops,
        nm \in BOOLEAN}

PplotExample ==
    /\ pstep = "args"
    /\ pin.nb = "example"
    /\ LET r == ExamplePplot(pin.g, "t", "x", "y", pin.logplot, pin.highlight, pin.crop,
                             pin.X, pin.Y, pin.plotarea)
       IN  /\ pfig' = r.fig
           /\ pcalls' = r.calls
    /\ pstep' = "done"
    /\ UNCHANGED <<pin, evars, kvars>>

PplotKinesin ==
    /\ pstep = "args"
    /\ pin.nb = "kinesin"
    /\ LET r == KinesinPplot(pin.g, "t", pin.logplot, pin.highlight, pin.crop,
                             pin.numerical, pin.X, pin.Y, pin.plotarea)
       IN  /\ pfig' = r.fig
           /\ pcalls' = r.calls
    /\ pstep' = "done"
    /\ UNCHANGED <<pin, evars, kvars>>

PNext ==
    \/ PplotExample
    \/ PplotKinesin

InitPplot ==
    /\ epc = 1
    /\ ebound = {}
    /\ eerr = FALSE
    /\ model4State = <<>>
    /\ rates_parametrized = <<>>
    /\ aff0 = Log(One)
    /\ aff1 = Log(One)
    /\ eX = <<>>
    /\ eY = <<>>
    /\ eplotarea = <<>>
    /\ eout = [k \in 1..Len(ECells) |-> <<>>]
    /\ cumlib = [kind |-> "const", sign |-> 1, mag |-> 0]
    /\ kbound = {}
    /\ fmin = 0 /\ fmax = 0 /\ mumin = 0 /\ mumax = 0
    /\ xpts = <<>> /\ ypts = <<>>
    /\ X = <<>> /\ Y = <<>> /\ plotarea = <<>>
    /\ XX = <<>> /\ YY = <<>> /\ zoomarea = <<>>
    /\ kdata = [n \in DataNames |-> <<>>]
    /\ kout = [k \in 1..Len(KCells) |-> <<>>]
    /\ kdone = {}
    /\ kgrid = 0
    /\ lamlib = [kind |-> "const", sign |-> 1, mag |-> 0]
    /\ pfig = <<>>
    /\ pcalls = <<>>
    /\ pstep = "args"
    /\ pin \in ExampleInputs \cup KinesinInputs

SpecPplot == InitPplot /\ [][PNext]_vars

----------------------------------------------------------------------------
(* Graph notions used by the properties *)

\* the arrangement of the four states in the picture of the model
\*   0 - 1
\*   | \ |
\*   3 - 2
\* as <<column, row>>, rows counted upwards
Position == (0 :> <<0, 1>>) @@ (1 :> <<1, 1>>) @@ (2 :> <<1, 0>>) @@ (3 :> <<0, 0>>)

StatesOf(m) == {e[1] : e \in DOMAIN m} \cup {e[2] : e \in DOMAIN m}

Rev(e) == <<e[2], e[1]>>

\* the directed edges of m left when the chords are removed in both directions
TreeEdges(m, chords) ==
    {e \in DOMAIN m : \A i \in DOMAIN chords : e # chords[i] /\ e # Rev(chords[i])}

Undirected(E) == {{e[1], e[2]} : e \in E}

\* the states reachable from the set S along edges of E
RECURSIVE ReachFrom(_, _)
ReachFrom(S, E) ==
    LET T == S \cup {e[2] : e \in {d \in E : d[1] \in S}}
    IN  IF T = S THEN S ELSE ReachFrom(T, E)

ConnectedOn(V, E) == \A v \in V : ReachFrom({v}, E) = V

\* no cycle: stripping leaves (and isolated states) again and again leaves nothing
RECURSIVE Forest(_, _)
Forest(V, U) ==
    LET low == {v \in V : Cardinality({u \in U : v \in u}) <= 1}
    IN  IF V = {} THEN TRUE
        ELSE IF low = {} THEN FALSE
        ELSE Forest(V \ low, {u \in U : u \cap low = {}})

\* the simple paths of E from a to b over the states V
PathsIn(V, E, a, b) ==
    {p \in UNION {[1..n -> V] : n \in 1..Cardinality(V)} :
        /\ p[1] = a
        /\ p[Len(p)] = b
        /\ \A i, j \in DOMAIN p : i # j => p[i] # p[j]
        /\ \A i \in 1..(Len(p) - 1) : <<p[i], p[i + 1]>> \in E}

\* the cycle a chord closes over the tree, run through from the chord's tail:
\* the chord, then the tree path from its head back to its tail
FundamentalCycle(m, chords, i) ==
    LET ps == PathsIn(StatesOf(m), TreeEdges(m, chords), chords[i][2], chords[i][1])
        p  == CHOOSE q \in ps : TRUE
    IN  IF Cardinality(ps) = 1 THEN <<chords[i][1]>> \o SubSeq(p, 1, Len(p) - 1)
        ELSE <<>>

\* the directed edges along a cycle, closing edge included
CycleEdges(cyc) ==
    [i \in 1..Len(cyc) |-> <<cyc[i], cyc[(i % Len(cyc)) + 1]>>]

\* twice the signed area of a cycle in the picture: negative when clockwise
SignedArea2(cyc) ==
    LET es == CycleEdges(cyc)
    IN  SeqSum([i \in 1..Len(es) |->
            Position[es[i][1]][1] * Position[es[i][2]][2]
          - Position[es[i][2]][1] * Position[es[i][1]][2]])

\* the entry of a substitution list for the symbol s
Lookup(list, s) == list[CHOOSE i \in DOMAIN list : list[i][1] = s][2]

\* a rate after the substitution
Rate(s, list) == Subs(Sym(s), list)

----------------------------------------------------------------------------
(* Properties of example.ipynb, under SpecExample *)

\* C1: removing the chords (0,1) and (0,2), in both directions, from the graph
\* of model4State leaves the edges {0-3, 1-2, 2-3}, which connect all four
\* states 0..3 and contain no cycle (a spanning tree).
C1_SpanningTree ==
    "model4State" \in ebound =>
        LET T == TreeEdges(model4State, Chords)
        IN  /\ Undirected(T) = {{0, 3}, {1, 2}, {2, 3}}
            /\ StatesOf(model4State) = 0..3
            /\ ConnectedOn(0..3, T)
            /\ Forest(0..3, Undirected(T))

C1_Witness ==
    /\ "c" \in ebound
    /\ Cardinality(DOMAIN model4State) = 10
    /\ Cardinality(Undirected(TreeEdges(model4State, Chords))) = 3

\* C2: after substituting rates_parametrized, aff0 = 4*f and aff1 = 2*f + g,
\* for all f, g and b > 0: neither has a term in log(b) or in a rate symbol.
C2_Affinities ==
    /\ "aff0" \in ebound => aff0 = LinFG(4, 0)
    /\ "aff1" \in ebound => aff1 = LinFG(2, 1)

C2_Witness ==
    /\ "aff0" \in ebound
    /\ "aff1" \in ebound
    /\ aff0["f"] = 8
    /\ aff1["g"] = 2

\* the rate symbols along a cycle, forwards and backwards
ForwardRates(m, cyc) ==
    LET es == CycleEdges(cyc) IN [i \in 1..Len(es) |-> m[es[i]]]

BackwardRates(m, cyc) ==
    LET es == CycleEdges(cyc) IN [i \in 1..Len(es) |-> m[Rev(es[i])]]

\* C3: the fundamental cycle of the chord (0,1) is the outer circuit
\* 0->1->2->3->0, that of the chord (0,2) the lower half circuit 0->2->3->0,
\* each run through in the direction of its chord, which is clockwise; aff0 and
\* aff1 are the logarithms of the forward over the backward rate products of
\* exactly these cycles.
C3_FundamentalCycles ==
    "aff1" \in ebound =>
        LET cyc0 == FundamentalCycle(model4State, Chords, 1)
            cyc1 == FundamentalCycle(model4State, Chords, 2)
        IN  /\ cyc0 = <<0, 1, 2, 3>>
            /\ cyc1 = <<0, 2, 3>>
            /\ CycleEdges(cyc0)[1] = Chords[1]
            /\ CycleEdges(cyc1)[1] = Chords[2]
            /\ SignedArea2(cyc0) < 0
            /\ SignedArea2(cyc1) < 0
            /\ SymProd(Aff0Num) = SymProd(ForwardRates(model4State, cyc0))
            /\ SymProd(Aff0Den) = SymProd(BackwardRates(model4State, cyc0))
            /\ SymProd(Aff1Num) = SymProd(ForwardRates(model4State, cyc1))
            /\ SymProd(Aff1Den) = SymProd(BackwardRates(model4State, cyc1))
            /\ aff0 = Affinity(ForwardRates(model4State, cyc0),
                               BackwardRates(model4State, cyc0), rates_parametrized)
            /\ aff1 = Affinity(ForwardRates(model4State, cyc1),
                               BackwardRates(model4State, cyc1), rates_parametrized)

C3_Witness ==
    /\ "aff1" \in ebound
    /\ "c" \in ebound
    /\ Len(FundamentalCycle(model4State, Chords, 1)) = 4
    /\ Len(FundamentalCycle(model4State, Chords, 2)) = 3

\* the rate symbols of the outer circuit, clockwise and counter-clockwise
OuterCw(m) == Range(ForwardRates(m, <<0, 1, 2, 3>>))

OuterCcw(m) == Range(BackwardRates(m, <<0, 1, 2, 3>>))

C5_SymmetricAntisymmetric ==
    "rates_parametrized" \in ebound =>
        /\ \A e \in Range(CycleEdges(<<0, 1, 2, 3>>)) :
               LET cw  == Rate(model4State[e], rates_parametrized)
                   ccw == Rate(model4State[Rev(e)], rates_parametrized)
               IN  /\ Log(Quot(cw, ccw)) = LinFG(1, 0)
                   /\ Mul(cw, ccw) = Pw(One, 2)
        /\ LET w02 == Rate(model4State[<<0, 2>>], rates_parametrized)
               w20 == Rate(model4State[<<2, 0>>], rates_parametrized)
           IN  /\ Log(Quot(w02, w20)) = LinFG(0, 1)
               /\ Mul(w02, w20) = Pw(Sym("b"), 2)

C5_Witness ==
    /\ "rates_parametrized" \in ebound
    /\ Rate("w01", rates_parametrized) # Sym("w01")
    /\ Rate("w02", rates_parametrized)["b"] = 1

\* C6: rates_parametrized holds exactly one pair for each of the ten rate
\* symbols that are values of model4State and no pair for another symbol, so
\* every rate of the model is, after the substitution, an expression in f, g
\* and b only.
C6_SubstitutionComplete ==
    "rates_parametrized" \in ebound =>
        /\ Cardinality(Range(model4State)) = 10
        /\ {rates_parametrized[i][1] : i \in DOMAIN rates_parametrized}
               = Range(model4State)
        /\ \A s \in Range(model4State) :
               Cardinality({i \in DOMAIN rates_parametrized :
                               rates_parametrized[i][1] = s}) = 1
        /\ \A e \in DOMAIN model4State :
               FreeAtoms(Rate(model4State[e], rates_parametrized)) \subseteq ParamAtoms

C6_Witness ==
    /\ "rates_parametrized" \in ebound
    /\ Len(rates_parametrized) = 10
    /\ FreeAtoms(Rate("w20", rates_parametrized)) = {"b", "exp(g/2)"}

\* C7: model4State is dynamically reversible: with every edge (i,j) it has
\* the edge (j,i), no edge is a self-loop, and the two directions carry
\* distinct rate symbols.
C7_DynamicallyReversible ==
    "model4State" \in ebound =>
        \A e \in DOMAIN model4State :
            /\ Rev(e) \in DOMAIN model4State
            /\ e[1] # e[2]
            /\ model4State[e] # model4State[Rev(e)]

C7_Witness ==
    /\ "model4State" \in ebound
    /\ <<3, 2>> \in DOMAIN model4State
    /\ Cardinality(DOMAIN model4State) = 10

\* C8: run top to bottom, no cell of example.ipynb reads a global name that
\* is not bound (no NameError), and the steps come in the order: rate symbols
\* and model, substitution list, getCumulants, the seven lambdified
\* observables, the grid X, Y, the pplot calls; a step is there only when the
\* one before it is finished.
C8_LinearScript ==
    /\ ~eerr
    /\ "rates_parametrized" \in ebound => (RateSymbols \cup {"model4State"}) \subseteq ebound
    /\ "c" \in ebound => "rates_parametrized" \in ebound /\ epc > 5
    /\ Range(EObservables) \cap ebound # {} =>
           Range(EObservables) \subseteq ebound /\ "c" \in ebound /\ epc > 9
    /\ "X" \in ebound => Range(EObservables) \subseteq ebound /\ epc > 10
    /\ \A k \in DOMAIN eout :
           eout[k] # <<>> => {"X", "Y", "plotarea", "pplot"} \subseteq ebound /\ epc > k
    /\ epc > 12 => Len(eout[12]) = 6
    /\ epc > 13 => Len(eout[13]) = 6

C8_Witness ==
    /\ epc = Len(ECells) + 1
    /\ ~eerr
    /\ Len(eout[12]) = 6
    /\ Len(eout[13]) = 6

----------------------------------------------------------------------------
(* Properties of pplot, under SpecPplot *)

\* the values of the first argument over the grid: g(X,Y), or g itself when
\* it is an array
ValuesOfG == IF pin.numerical THEN pin.g.array ELSE CallG(pin.g, pin.X, pin.Y)

\* the image shows the array V: row r of V, which belongs to the r-th point of
\* the y axis, is the r-th row of the image counted from below
ImageShows(fig, V) ==
    /\ Len(fig.image) = Len(V)
    /\ \A r \in DOMAIN V : fig.image[Len(V) + 1 - r] = V[r]

\* the black contour lines are those of V over the grid, the white one is the
\* level hl of W over the grid
ContoursShow(fig, V, W, hl) ==
    /\ Len(fig.contours) = 2
    /\ fig.contours[1].color = "black"
    /\ fig.contours[1].z = V
    /\ fig.contours[1].x = pin.X /\ fig.contours[1].y = pin.Y
    /\ fig.contours[2].color = "white"
    /\ fig.contours[2].z = W
    /\ fig.contours[2].levels = <<hl>>
    /\ fig.contours[2].x = pin.X /\ fig.contours[2].y = pin.Y

PplotShows ==
    /\ pin.logplot =>
           /\ ImageShows(pfig, MapLog10Abs(ValuesOfG))
           /\ ContoursShow(pfig, MapLog10Abs(ValuesOfG), ValuesOfG, pin.highlight)
    /\ ~pin.logplot =>
           /\ ImageShows(pfig, ValuesOfG)
           /\ ContoursShow(pfig, ValuesOfG, ValuesOfG, pin.highlight)
    /\ \A i \in DOMAIN pcalls : pcalls[i] = <<pin.X, pin.Y>>

\* C9 as stated: with logplot=True image and black contours show
\* log10|g(X,Y)| and the white contour is the level `highlight` of g(X,Y); with
\* logplot=False all three use g(X,Y); g is only called as g(X,Y).
C9_AsStated == pstep = "done" => PplotShows

\* C9 (amended): the above holds for pplot of example.ipynb and for pplot of
\* kinesin.ipynb called with numerical=False, where g is called (with X, Y and
\* nothing else).  With numerical=True g is the array of values: the image
\* shows it as it is whatever logplot says, no contour is drawn and g is not
\* called.
C9_Pplot ==
    pstep = "done" =>
        IF pin.numerical
        THEN /\ ImageShows(pfig, pin.g.array)
             /\ pfig.contours = <<>>
             /\ pcalls = <<>>
        ELSE /\ PplotShows
             /\ pcalls # <<>>

C9_Witness ==
    /\ pstep = "done"
    /\ pin.logplot
    /\ ~pin.numerical
    /\ pin.highlight = 1
    /\ \E r \in DOMAIN ValuesOfG : \E c \in DOMAIN ValuesOfG[r] :
           /\ ValuesOfG[r][c] = -10
           /\ pfig.contours[1].z[r][c] = 1
           /\ pfig.contours[2].z[r][c] = -10

----------------------------------------------------------------------------
(* Properties of kinesin.ipynb, under SpecKinesin *)

\* C10: once the full-range grid cell and the zoomed grid cell have each run,
\* in any order and any number of times, plotarea = [-30,30,-30,30] with X, Y
\* spanning exactly that range and zoomarea = [0,20,5,30] with XX, YY spanning
\* exactly that range, while fmin, fmax, mumin, mumax, xpts, ypts hold the
\* values of the grid cell that ran last; every figure pplot returns uses the
\* full-range grid and extent.
C10_Grids ==
    /\ (5 \in kdone /\ 6 \in kdone) =>
           /\ plotarea = <<-30, 30, -30, 30>>
           /\ Spans(X, -30, 30, GridRes) /\ Spans(Y, -30, 30, GridRes)
           /\ zoomarea = <<0, 20, 5, 30>>
           /\ Spans(XX, 0, 20, GridRes) /\ Spans(YY, 5, 30, GridRes)
           /\ kgrid \in {5, 6}
           /\ <<fmin, fmax, mumin, mumax>> = KRangeOf(kgrid)
           /\ xpts = Linspace(KRangeOf(kgrid)[1], KRangeOf(kgrid)[2], GridRes)
           /\ ypts = Linspace(KRangeOf(kgrid)[3], KRangeOf(kgrid)[4], GridRes)
    /\ \A k \in {10, 11, 12} : \A i \in DOMAIN kout[k] :
           /\ kout[k][i].extent = <<-30, 30, -30, 30>>
           /\ \A j \in DOMAIN kout[k][i].contours :
                  /\ Spans(kout[k][i].contours[j].x, -30, 30, GridRes)
                  /\ Spans(kout[k][i].contours[j].y, -30, 30, GridRes)

C10_Witness ==
    /\ 5 \in kdone
    /\ 6 \in kdone
    /\ kgrid = 6
    /\ fmin = 0
    /\ Len(kout[10]) = 5
    /\ kout[10][1].extent = <<-30, 30, -30, 30>>
    /\ Len(kout[13]) = 2

====
